---------------------------- MODULE Spec2Model ----------------------------
(***************************************************************************)
(* A model of kedro_polis_classic:                                         *)
(*   - datasets/polis_api.py: _parse_polis_url and PolisAPIDataset         *)
(*     (construction, load dispatch, the two remote loaders with their     *)
(*     https -> http retry, the directory loader);                         *)
(*   - pipelines/geographic/nodes.py: the island filter, the aggregation   *)
(*     of participants to islands, the island shapes and the placement     *)
(*     loop with its rejection sampling.                                   *)
(*                                                                         *)
(* Python strings are sequences of one-character strings, so that          *)
(* startswith, strip, split and replace are computed and not assumed.      *)
(* Python's None is the value None below, which is no string of the model. *)
(***************************************************************************)
EXTENDS Integers, Sequences, FiniteSets, TLC

VARIABLES
    \* ---- PolisAPIDataset ----
    pc,               \* "new" | "ready" | "failed": the object's life cycle
    polis_id,         \* self.polis_id
    base_url,         \* self.base_url
    polis_url,        \* self.polis_url  (a Url record)
    import_dir,       \* self.import_dir
    report_id,        \* self.report_id
    conversation_id,  \* self.conversation_id
    ctorError,        \* the ValueError __init__ raised, or "none"
    argId,            \* the polis_id argument __init__ was given
    lastLoad,         \* what the last call of load() did
    nLoads,           \* calls of load() so far
    oracle,           \* what the endpoints answered to the last load()
    environ,          \* os.environ["KEDRO_POLIS_ID"]
    \* ---- _parse_polis_url on its own ----
    urlPc,            \* "input" | "parsed"
    urlIn,            \* the URL given
    urlOut,           \* what _parse_polis_url returned or raised
    \* ---- geographic pipeline ----
    geoPc,            \* the node that runs next
    votes,            \* deduped_votes: a sequence of vote rows
    participant_mask, \* a sequence of <<participant_id, flag>>
    filtered_votes,   \* output of filter_votes_for_islands
    participant_islands, \* ordered dict: a sequence of [pid, islands]
    islands_geojson,  \* island -> geometry type of its feature
    island_shapes,    \* island -> shape, or NoShape
    loopIdx,          \* position of the placement loop in participant_islands
    cur,              \* the loop's locals: pid, islands, island_name
    participant_features \* the output feature list

dsVars == <<pc, polis_id, base_url, polis_url, import_dir, report_id,
            conversation_id, ctorError, argId, lastLoad, nLoads, oracle,
            environ>>
urlVars == <<urlPc, urlIn, urlOut>>
geoVars == <<geoPc, votes, participant_mask, filtered_votes,
             participant_islands, islands_geojson, island_shapes, loopIdx,
             cur, participant_features>>
vars == <<dsVars, urlVars, geoVars>>

-----------------------------------------------------------------------------
(* Bounds *)

\* Pieces a URL path is put together from.
MaxPieces == 4
\* Calls of load() on one dataset.
MaxLoads == 2

-----------------------------------------------------------------------------
(* Strings *)

None == <<"None">>

\* Python truthiness of an optional string: neither None nor "".
Truthy(s) == s # None /\ s # <<>>

StartsWith(s, p) ==
    /\ Len(s) >= Len(p)
    /\ SubSeq(s, 1, Len(p)) = p

\* str.replace(old, new): every occurrence, left to right, not overlapping.
RECURSIVE Replace(_, _, _)
Replace(s, old, new) ==
    IF s = <<>> THEN <<>>
    ELSE IF old # <<>> /\ StartsWith(s, old)
         THEN new \o Replace(SubSeq(s, Len(old) + 1, Len(s)), old, new)
         ELSE <<Head(s)>> \o Replace(Tail(s), old, new)

\* str.strip("/")
RECURSIVE LStrip(_, _)
LStrip(s, c) == IF s # <<>> /\ Head(s) = c THEN LStrip(Tail(s), c) ELSE s

RECURSIVE RStrip(_, _)
RStrip(s, c) ==
    IF s # <<>> /\ s[Len(s)] = c THEN RStrip(SubSeq(s, 1, Len(s) - 1), c) ELSE s

Strip(s, c) == RStrip(LStrip(s, c), c)

\* str.split("/"): always at least one part; "" splits to [""].
RECURSIVE SplitAcc(_, _, _)
SplitAcc(s, c, part) ==
    IF s = <<>> THEN <<part>>
    ELSE IF Head(s) = c THEN <<part>> \o SplitAcc(Tail(s), c, <<>>)
         ELSE SplitAcc(Tail(s), c, Append(part, Head(s)))

Split(s, c) == SplitAcc(s, c, <<>>)

Digits == {"0", "1", "2", "3", "4", "5", "6", "7", "8", "9"}
IsDigit(c) == c \in Digits

Marker == <<"r">>
SLASH == "/"
REPORT == <<"r", "e", "p", "o", "r", "t">>
HTTPS == <<"h", "t", "t", "p", "s", ":", "/", "/">>
HTTP == <<"h", "t", "t", "p", ":", "/", "/">>
HOST == <<"p", "o", "l", ".", "i", "s">>
DEFAULT_BASE == HTTPS \o HOST

-----------------------------------------------------------------------------
(* _parse_polis_url *)

\* The URL as urlparse splits it: scheme, netloc and path. given = FALSE is
\* the absent (None or "") polis_url argument.
Url(scheme, netloc, path) ==
    [given |-> TRUE, scheme |-> scheme, netloc |-> netloc, path |-> path]
NoUrl == [given |-> FALSE, scheme |-> <<>>, netloc |-> <<>>, path |-> <<>>]

\* f"{parsed.scheme}://{parsed.netloc}"
UrlBase(u) == u.scheme \o <<":", "/", "/">> \o u.netloc

\* The conversation branch of _parse_polis_url.
ConvIdOfUrl(u, last) ==
    IF StartsWith(last, Marker)
    THEN [ok |-> FALSE, err |-> "conversation_url_with_report_id",
          base_url |-> None, polis_id |-> None]
    ELSE [ok |-> TRUE, err |-> "none", base_url |-> UrlBase(u), polis_id |-> last]

\* Variant: the marker is put in front without looking at the id.
ReportIdOfUrl_AlwaysPrefix(last) == Marker \o last

\* The report branch of _parse_polis_url.
ReportIdOfUrl(last) ==
    IF ~StartsWith(last, Marker) THEN Marker \o last ELSE last

ParsePolisUrl(u) ==
    LET path_parts == Split(Strip(u.path, SLASH), SLASH)
        n == Len(path_parts)
    IN  IF n = 0 \/ path_parts[n] = <<>>
        THEN [ok |-> FALSE, err |-> "invalid_url_format",
              base_url |-> None, polis_id |-> None]
        ELSE IF n >= 2 /\ path_parts[n - 1] = REPORT
             THEN [ok |-> TRUE, err |-> "none", base_url |-> UrlBase(u),
                   polis_id |-> ReportIdOfUrl(path_parts[n])]
             ELSE ConvIdOfUrl(u, path_parts[n])

\* Inputs: paths put together from up to MaxPieces pieces.
Pieces == {<<"/">>, REPORT, <<"r", "1">>, <<"1">>, <<"x">>}

RECURSIVE Concat(_)
Concat(ps) == IF ps = <<>> THEN <<>> ELSE Head(ps) \o Concat(Tail(ps))

Paths == {Concat(ps) : ps \in UNION {[1..k -> Pieces] : k \in 0..MaxPieces}}
Schemes == {<<"h", "t", "t", "p", "s">>, <<"h", "t", "t", "p">>}
Urls == {Url(s, HOST, p) : s \in Schemes, p \in Paths}


-----------------------------------------------------------------------------
(* PolisAPIDataset.__init__ *)

ArgIds == {None, <<>>, <<"r", "1">>, <<"1">>, <<"x">>}
ArgBases == {None, HTTPS \o HOST, HTTP \o HOST}
ArgDirs == {None, <<>>, <<"/", "d">>}
ArgUrls == {NoUrl} \cup Urls

\* Lines 60-69: polis_url takes the place of polis_id and base_url.
ResolveArgs(a_id, a_base, a_url) ==
    IF a_url.given
    THEN IF Truthy(a_id) \/ Truthy(a_base)
         THEN [ok |-> FALSE, err |-> "both_url_and_id",
               base_url |-> None, polis_id |-> None]
         ELSE ParsePolisUrl(a_url)
    ELSE [ok |-> TRUE, err |-> "none",
          base_url |-> IF Truthy(a_base) THEN a_base ELSE DEFAULT_BASE,
          polis_id |-> a_id]

\* Variant: an id that starts with neither 'r' nor a digit is let through.
ClassifyId_NoShapeCheck(dir, id) ==
    IF Truthy(dir)
    THEN [ok |-> TRUE, err |-> "none", report_id |-> None,
          conversation_id |-> None]
    ELSE IF Truthy(id)
         THEN IF StartsWith(id, Marker)
              THEN [ok |-> TRUE, err |-> "none", report_id |-> id,
                    conversation_id |-> None]
              ELSE IF IsDigit(id[1])
                   THEN [ok |-> TRUE, err |-> "none", report_id |-> None,
                         conversation_id |-> id]
                   ELSE [ok |-> TRUE, err |-> "none",
                         report_id |-> None, conversation_id |-> None]
         ELSE [ok |-> FALSE, err |-> "missing_identifier",
               report_id |-> None, conversation_id |-> None]

\* Lines 75-96: report_id and conversation_id from import_dir and polis_id.
ClassifyId(dir, id) ==
    IF Truthy(dir)
    THEN [ok |-> TRUE, err |-> "none", report_id |-> None,
          conversation_id |-> None]
    ELSE IF Truthy(id)
         THEN IF StartsWith(id, Marker)
              THEN [ok |-> TRUE, err |-> "none", report_id |-> id,
                    conversation_id |-> None]
              ELSE IF IsDigit(id[1])
                   THEN [ok |-> TRUE, err |-> "none", report_id |-> None,
                         conversation_id |-> id]
                   ELSE [ok |-> FALSE, err |-> "bad_polis_id",
                         report_id |-> None, conversation_id |-> None]
         ELSE [ok |-> FALSE, err |-> "missing_identifier",
               report_id |-> None, conversation_id |-> None]

NoLoad ==
    [strategy |-> "none", attempts |-> <<>>, downgrades |-> 0,
     returned |-> FALSE, source |-> None, meta |-> None, error |-> "none"]

\* __init__(polis_id, base_url, polis_url, import_dir)
Construct ==
    /\ pc = "new"
    /\ \E a_id \in ArgIds, a_base \in ArgBases, a_url \in ArgUrls,
          a_dir \in ArgDirs :
          LET r == ResolveArgs(a_id, a_base, a_url)
              c == ClassifyId(a_dir, r.polis_id)
          IN  /\ argId' = a_id
              /\ polis_url' = a_url
              /\ import_dir' = a_dir
              /\ IF r.ok /\ c.ok
                 THEN /\ pc' = "ready"
                      /\ ctorError' = "none"
                      /\ polis_id' = r.polis_id
                      /\ base_url' = r.base_url
                      /\ report_id' = c.report_id
                      /\ conversation_id' = c.conversation_id
                 ELSE /\ pc' = "failed"
                      /\ ctorError' = IF r.ok THEN c.err ELSE r.err
                      /\ polis_id' = None
                      /\ base_url' = None
                      /\ report_id' = None
                      /\ conversation_id' = None
    /\ UNCHANGED <<lastLoad, nLoads, oracle, environ, urlVars, geoVars>>

-----------------------------------------------------------------------------
(* PolisAPIDataset.load and the three loaders *)

\* Variant: the ids are tested before import_dir.
Dispatch_IdFirst(dir, rid, cid) ==
    IF Truthy(rid) THEN "csv"
    ELSE IF Truthy(cid) THEN "api"
    ELSE IF Truthy(dir) THEN "directory"
    ELSE "no_valid_parameters"

\* load(): lines 100-107.
Dispatch(dir, rid, cid) ==
    IF Truthy(dir) THEN "directory"
    ELSE IF Truthy(rid) THEN "csv"
    ELSE IF Truthy(cid) THEN "api"
    ELSE "no_valid_parameters"

\* What one Loader(...) call against an endpoint ends in: data, an
\* ssl.SSLError / requests.exceptions.SSLError, or any other exception.
Outcomes == {"ok", "ssl", "other"}
NoOracle == <<"none", "none">>

Attempt(url, outcome) == [url |-> url, outcome |-> outcome]

\* Variant: any exception of the first attempt leads to the http retry.
RemoteLoad_RetryAnyError(strategy, base, o1, o2) ==
    IF o1 = "ok"
    THEN [strategy |-> strategy, attempts |-> <<Attempt(base, o1)>>,
          downgrades |-> 0, returned |-> TRUE, source |-> base,
          meta |-> None, error |-> "none"]
    ELSE LET http_base_url == Replace(base, HTTPS, HTTP)
         IN [strategy |-> strategy,
             attempts |-> <<Attempt(base, o1), Attempt(http_base_url, o2)>>,
             downgrades |-> 1, returned |-> (o2 = "ok"),
             source |-> IF o2 = "ok" THEN http_base_url ELSE None,
             meta |-> None, error |-> IF o2 = "ok" THEN "none" ELSE o2]

\* Variant: after the retry the first endpoint's data is handed out.
RemoteLoad_KeepsFirst(strategy, base, o1, o2) ==
    IF o1 = "ssl" /\ StartsWith(base, HTTPS)
    THEN LET http_base_url == Replace(base, HTTPS, HTTP)
         IN [strategy |-> strategy,
             attempts |-> <<Attempt(base, o1), Attempt(http_base_url, o2)>>,
             downgrades |-> 1, returned |-> (o2 = "ok"),
             source |-> IF o2 = "ok" THEN base ELSE None,
             meta |-> None, error |-> IF o2 = "ok" THEN "none" ELSE o2]
    ELSE [strategy |-> strategy, attempts |-> <<Attempt(base, o1)>>,
          downgrades |-> 0, returned |-> (o1 = "ok"),
          source |-> IF o1 = "ok" THEN base ELSE None,
          meta |-> None, error |-> IF o1 = "ok" THEN "none" ELSE o1]

\* load_from_csv (lines 119-151) and load_from_api (lines 163-191): the same
\* try / except around Loader; o1 and o2 are what the first and the second
\* Loader call end in.
RemoteLoad(strategy, base, o1, o2) ==
    IF o1 = "ok"
    THEN [strategy |-> strategy, attempts |-> <<Attempt(base, o1)>>,
          downgrades |-> 0, returned |-> TRUE, source |-> base,
          meta |-> None, error |-> "none"]
    ELSE IF o1 = "ssl"
    THEN IF StartsWith(base, HTTPS)
         THEN LET http_base_url == Replace(base, HTTPS, HTTP)
              IN [strategy |-> strategy,
                  attempts |-> <<Attempt(base, o1), Attempt(http_base_url, o2)>>,
                  downgrades |-> 1, returned |-> (o2 = "ok"),
                  source |-> IF o2 = "ok" THEN http_base_url ELSE None,
                  meta |-> None, error |-> IF o2 = "ok" THEN "none" ELSE o2]
         ELSE [strategy |-> strategy, attempts |-> <<Attempt(base, o1)>>,
               downgrades |-> 0, returned |-> FALSE, source |-> None,
               meta |-> None, error |-> o1]
    ELSE [strategy |-> strategy, attempts |-> <<Attempt(base, o1)>>,
          downgrades |-> 0, returned |-> FALSE, source |-> None,
          meta |-> None, error |-> o1]

\* conversation_id values a directory's conversation.json may declare.
MetaIds == {<<"1">>, <<"2", "x">>, <<"r", "1">>}

\* Variant: a polis_id given at construction is kept.
DirectoryIds_KeepPolisId(meta, old_polis_id) ==
    [conversation_id |-> meta,
     polis_id |-> IF Truthy(old_polis_id) THEN old_polis_id ELSE meta]

\* load_from_directory lines 211-217: both ids from the metadata.
DirectoryIds(meta, old_polis_id) ==
    [conversation_id |-> meta, polis_id |-> meta]

\* load_from_directory with a directory Loader can read: its metadata
\* declares conversation id meta.
LoadFromDirectoryOk(meta) ==
    LET ids == DirectoryIds(meta, polis_id)
    IN  /\ conversation_id' = ids.conversation_id
        /\ polis_id' = ids.polis_id
        /\ environ' = meta
        /\ lastLoad' = [strategy |-> "directory", attempts |-> <<>>,
                        downgrades |-> 0, returned |-> TRUE,
                        source |-> import_dir, meta |-> meta,
                        error |-> "none"]
        /\ UNCHANGED <<report_id>>

\* load_from_directory when Loader(filepaths) raises (a file is missing or
\* unreadable): nothing is assigned.
LoadFromDirectoryFails ==
    /\ lastLoad' = [strategy |-> "directory", attempts |-> <<>>,
                    downgrades |-> 0, returned |-> FALSE, source |-> None,
                    meta |-> None, error |-> "loader"]
    /\ UNCHANGED <<conversation_id, polis_id, environ, report_id>>

\* One call of load().
Load ==
    /\ pc = "ready"
    /\ nLoads < MaxLoads
    /\ nLoads' = nLoads + 1
    /\ LET strategy == Dispatch(import_dir, report_id, conversation_id)
       IN  IF strategy = "directory"
           THEN /\ \E m \in MetaIds \cup {None} :
                      IF m = None THEN LoadFromDirectoryFails
                      ELSE LoadFromDirectoryOk(m)
                /\ oracle' = NoOracle
           ELSE IF strategy \in {"csv", "api"}
           THEN /\ \E o1 \in Outcomes, o2 \in Outcomes :
                      /\ lastLoad' = RemoteLoad(strategy, base_url, o1, o2)
                      /\ oracle' = <<o1, o2>>
                /\ UNCHANGED <<conversation_id, polis_id, environ, report_id>>
           ELSE /\ lastLoad' = [NoLoad EXCEPT !.strategy = strategy,
                                             !.error = "no_valid_parameters"]
                /\ oracle' = NoOracle
                /\ UNCHANGED <<conversation_id, polis_id, environ, report_id>>
    /\ UNCHANGED <<pc, base_url, polis_url, import_dir, ctorError, argId,
                   urlVars, geoVars>>

-----------------------------------------------------------------------------
(* _parse_polis_url applied to a URL *)

NoParse == [ok |-> FALSE, err |-> "not_run", base_url |-> None, polis_id |-> None]

ParseUrl ==
    /\ urlPc = "input"
    /\ urlPc' = "parsed"
    /\ urlOut' = ParsePolisUrl(urlIn)
    /\ UNCHANGED <<urlIn, dsVars, geoVars>>

-----------------------------------------------------------------------------
(* Geographic pipeline: inputs *)

\* Rows of the votes table.
MaxVotes == 2

\* The participants.
PIDs == {1, 2}

Orcas == 64
Lopez == 65
SanJuan == 66
Shaw == 67

island_statements == {Orcas, Lopez, SanJuan, Shaw}

statement_to_island(i) ==
    CASE i = Orcas -> "Orcas Island"
      [] i = Lopez -> "Lopez Island"
      [] i = SanJuan -> "San Juan Island"
      [] i = Shaw -> "Shaw Island"

Islands == {statement_to_island(i) : i \in island_statements}

\* The statements voted on: the four island statements and one other.
VoteStatements == island_statements \cup {63}
VoteValues == {-1, 1}
VoteRows ==
    [participant_id : PIDs, statement_id : VoteStatements,
     vote : VoteValues]
VoteTables == UNION {[1..k -> VoteRows] : k \in 0..MaxVotes}

\* A boolean Series: <<participant_id, flag>> rows with distinct index values.
MaskTables ==
    {m \in UNION {[1..k -> PIDs \X BOOLEAN] : k \in 0..Cardinality(PIDs)} :
        \A i, j \in 1..Len(m) : i # j => m[i][1] # m[j][1]}

\* Geometries, as the geometry library sees them: the bounding box, and for
\* each part the grid points it contains.
NoShape == [type |-> "none", is_empty |-> TRUE, bounds |-> <<0, 0, 0, 0>>, parts |-> {}]
PolygonShape ==
    [type |-> "Polygon", is_empty |-> FALSE, bounds |-> <<0, 0, 1, 1>>,
     parts |-> {{<<0, 0>>, <<1, 0>>}}]
EmptyPolygonShape ==
    [type |-> "Polygon", is_empty |-> TRUE, bounds |-> <<0, 0, 0, 0>>, parts |-> {}]
MultiPolygonShape ==
    [type |-> "MultiPolygon", is_empty |-> FALSE, bounds |-> <<0, 0, 2, 0>>,
     parts |-> {{<<0, 0>>}, {<<2, 0>>}}]
\* A ring of collinear points: not empty, with a bounding box, of area zero,
\* so that it contains no point.
DegeneratePolygonShape ==
    [type |-> "Polygon", is_empty |-> FALSE, bounds |-> <<0, 0, 1, 0>>,
     parts |-> {{}}]

\* What the GeoJSON holds for an island: no feature, or a feature of a type.
FeatureKinds ==
    {"absent", "Polygon", "EmptyPolygon", "DegeneratePolygon", "MultiPolygon",
     "LineString"}
PlainGeoJson == [i \in Islands |-> "Polygon"]
\* The GeoJSON tables: at most one island whose feature is not a plain Polygon.
GeoJsons ==
    {g \in [Islands -> FeatureKinds] :
        Cardinality({i \in Islands : g[i] # "Polygon"}) <= 1}

-----------------------------------------------------------------------------
(* Geographic pipeline: nodes *)

\* Variant: the vote == 1 filter is left out.
FilterVotes_AnyVote(v) ==
    SelectSeq(v, LAMBDA row : row.statement_id \in island_statements)

\* filter_votes_for_islands
FilterVotes(v) ==
    LET affirmative == SelectSeq(v, LAMBDA row : row.vote = 1)
    IN  SelectSeq(affirmative, LAMBDA row : row.statement_id \in island_statements)

\* The elements of a finite set of integers in ascending order.
RECURSIVE Ascending(_)
Ascending(S) ==
    IF S = {} THEN <<>>
    ELSE LET m == CHOOSE x \in S : \A y \in S : x <= y
         IN  <<m>> \o Ascending(S \ {m})

RECURSIVE MapIslands(_)
MapIslands(rows) ==
    IF rows = <<>> THEN <<>>
    ELSE <<statement_to_island(Head(rows).statement_id)>> \o MapIslands(Tail(rows))

\* groupby("participant_id")["statement_id"].apply(...).to_dict(): keys in
\* ascending order, each group's rows in table order.
GroupIslands(fv) ==
    LET keys == Ascending({fv[i].participant_id : i \in 1..Len(fv)})
    IN  [k \in 1..Len(keys) |->
            [pid |-> keys[k],
             islands |-> MapIslands(
                 SelectSeq(fv, LAMBDA row : row.participant_id = keys[k]))]]

HasKey(d, pid) == \E i \in 1..Len(d) : d[i].pid = pid

\* Lines 69-71: an "Other" entry for each included pid without an entry.
RECURSIVE AddOthers(_, _)
AddOthers(d, included) ==
    IF included = <<>> THEN d
    ELSE AddOthers(
             IF HasKey(d, Head(included)) THEN d
             ELSE Append(d, [pid |-> Head(included), islands |-> <<"Other">>]),
             Tail(included))

RECURSIVE IncludedIds(_)
\* participant_mask.index[participant_mask].tolist()
IncludedIds(mask) ==
    IF mask = <<>> THEN <<>>
    ELSE (IF Head(mask)[2] THEN <<Head(mask)[1]>> ELSE <<>>) \o IncludedIds(Tail(mask))

\* aggregate_participant_islands
AggregateParticipantIslands(fv, mask) ==
    AddOthers(GroupIslands(fv), IncludedIds(mask))

\* create_island_shapes: Polygon and MultiPolygon features only.
CreateIslandShapes(g) ==
    [i \in Islands |->
        CASE g[i] = "Polygon" -> PolygonShape
          [] g[i] = "EmptyPolygon" -> EmptyPolygonShape
          [] g[i] = "DegeneratePolygon" -> DegeneratePolygonShape
          [] g[i] = "MultiPolygon" -> MultiPolygonShape
          [] OTHER -> NoShape]

\* island_size_priority.get(x, 0)
island_size_priority(x) ==
    CASE x = "San Juan Island" -> 4
      [] x = "Orcas Island" -> 3
      [] x = "Lopez Island" -> 2
      [] x = "Shaw Island" -> 1
      [] OTHER -> 0

\* sorted(islands, key=...): stable; insertion after the last element whose
\* key is not larger.
RECURSIVE InsertByKey(_, _)
InsertByKey(sortedSeq, x) ==
    IF sortedSeq = <<>> THEN <<x>>
    ELSE IF island_size_priority(Head(sortedSeq)) <= island_size_priority(x)
         THEN <<Head(sortedSeq)>> \o InsertByKey(Tail(sortedSeq), x)
         ELSE <<x>> \o sortedSeq

RECURSIVE SortedByPriority(_)
SortedByPriority(islands) ==
    IF islands = <<>> THEN <<>>
    ELSE InsertByKey(SortedByPriority(SubSeq(islands, 1, Len(islands) - 1)),
                     islands[Len(islands)])

\* Variant: the first island voted for, unsorted.
ChooseIsland_First(islands) == islands[1]

\* Lines 165-172: the smallest island when there are several.
ChooseIsland(islands) ==
    IF Len(islands) > 1
    THEN SortedByPriority(islands)[1]
    ELSE islands[1]

\* polygon.bounds as the points a draw may give.
Box(b) == {<<x, y>> : x \in b[1]..b[3], y \in b[2]..b[4]}

\* Variant: the test is made against the bounding box.
Contains_Bounds(shape, p) == p \in Box(shape.bounds)

\* polygon.contains(p): in any part.
Contains(shape, p) == \E part \in shape.parts : p \in part

\* `if poly:` a missing shape (None) and an empty geometry are both falsy.
ShapeTruthy(shape) == shape.type # "none" /\ ~shape.is_empty

\* Points of the "Other" disk a draw may give.
DiskPoints == {<<10, 10>>, <<11, 10>>}

Feature(pid, island, coords) ==
    [participant_id |-> pid, island |-> island, coordinates |-> coords]

NoCur == [pid |-> 0, islands |-> <<>>, island_name |-> "none"]

\* Node filter_votes_for_islands, given a votes table among V.
FilterFrom(V) ==
    /\ geoPc = "filter"
    /\ \E v \in V :
          /\ votes' = v
          /\ filtered_votes' = FilterVotes(v)
    /\ geoPc' = "aggregate"
    /\ UNCHANGED <<participant_mask, participant_islands, islands_geojson,
                   island_shapes, loopIdx, cur, participant_features,
                   dsVars, urlVars>>

FilterNode == FilterFrom(VoteTables)

\* The same node on the votes tables of at most one row.
FilterNodeShort == FilterFrom({v \in VoteTables : Len(v) <= 1})

\* Node aggregate_participant_islands, given the participant mask.
AggregateNode ==
    /\ geoPc = "aggregate"
    /\ \E m \in MaskTables :
          /\ participant_mask' = m
          /\ participant_islands' = AggregateParticipantIslands(filtered_votes, m)
    /\ geoPc' = "shapes"
    /\ UNCHANGED <<votes, filtered_votes, islands_geojson, island_shapes,
                   loopIdx, cur, participant_features, dsVars, urlVars>>

\* Nodes load_island_geojson and create_island_shapes, the GeoJSON among G.
ShapesFrom(G) ==
    /\ geoPc = "shapes"
    /\ \E g \in G :
          /\ islands_geojson' = g
          /\ island_shapes' = CreateIslandShapes(g)
    /\ geoPc' = "assign"
    /\ loopIdx' = 1
    /\ participant_features' = <<>>
    /\ UNCHANGED <<votes, participant_mask, filtered_votes,
                   participant_islands, cur, dsVars, urlVars>>

ShapesNode == ShapesFrom(GeoJsons)

\* The same two nodes on the GeoJSON with a Polygon for every island.
ShapesNodePlain == ShapesFrom({PlainGeoJson})

\* One iteration of the loop of assign_participant_coordinates, up to the
\* call of random_point_in_polygon.
AssignStep ==
    /\ geoPc = "assign"
    /\ loopIdx <= Len(participant_islands)
    /\ LET entry == participant_islands[loopIdx]
           island_name == ChooseIsland(entry.islands)
       IN  /\ cur' = [pid |-> entry.pid, islands |-> entry.islands,
                      island_name |-> island_name]
           /\ IF island_name = "Other"
              THEN /\ \E c \in DiskPoints :
                         participant_features' =
                             Append(participant_features,
                                    Feature(entry.pid, island_name, c))
                   /\ loopIdx' = loopIdx + 1
                   /\ geoPc' = "assign"
              ELSE IF ShapeTruthy(island_shapes[island_name])
              THEN /\ geoPc' = "sampling"
                   /\ UNCHANGED <<loopIdx, participant_features>>
              ELSE /\ loopIdx' = loopIdx + 1
                   /\ geoPc' = "assign"
                   /\ UNCHANGED participant_features
    /\ UNCHANGED <<votes, participant_mask, filtered_votes,
                   participant_islands, islands_geojson, island_shapes,
                   dsVars, urlVars>>

\* One draw of random_point_in_polygon: accepted, and the feature appended.
SampleAccept ==
    /\ geoPc = "sampling"
    /\ LET poly == island_shapes[cur.island_name]
       IN  \E p \in Box(poly.bounds) :
              /\ Contains(poly, p)
              /\ participant_features' =
                     Append(participant_features,
                            Feature(cur.pid, cur.island_name, p))
    /\ loopIdx' = loopIdx + 1
    /\ geoPc' = "assign"
    /\ UNCHANGED <<votes, participant_mask, filtered_votes,
                   participant_islands, islands_geojson, island_shapes, cur,
                   dsVars, urlVars>>

\* One draw of random_point_in_polygon: rejected, the loop goes on.
SampleReject ==
    /\ geoPc = "sampling"
    /\ LET poly == island_shapes[cur.island_name]
       IN  \E p \in Box(poly.bounds) : ~Contains(poly, p)
    /\ UNCHANGED vars

\* The loop is over: return participant_features.
AssignReturn ==
    /\ geoPc = "assign"
    /\ loopIdx > Len(participant_islands)
    /\ geoPc' = "done"
    /\ UNCHANGED <<votes, participant_mask, filtered_votes,
                   participant_islands, islands_geojson, island_shapes,
                   loopIdx, cur, participant_features, dsVars, urlVars>>

-----------------------------------------------------------------------------
(* Specifications *)

DsIdle ==
    /\ pc = "new"
    /\ polis_id = None
    /\ base_url = None
    /\ polis_url = NoUrl
    /\ import_dir = None
    /\ report_id = None
    /\ conversation_id = None
    /\ ctorError = "none"
    /\ argId = None
    /\ lastLoad = NoLoad
    /\ nLoads = 0
    /\ oracle = NoOracle
    /\ environ = None

UrlIdle ==
    /\ urlPc = "idle"
    /\ urlIn = NoUrl
    /\ urlOut = NoParse

GeoIdle ==
    /\ geoPc = "idle"
    /\ votes = <<>>
    /\ participant_mask = <<>>
    /\ filtered_votes = <<>>
    /\ participant_islands = <<>>
    /\ islands_geojson = [i \in Islands |-> "absent"]
    /\ island_shapes = [i \in Islands |-> NoShape]
    /\ loopIdx = 0
    /\ cur = NoCur
    /\ participant_features = <<>>

\* A dataset: construction, then calls of load().
Init == DsIdle /\ UrlIdle /\ GeoIdle
Next == Construct \/ Load
Spec == Init /\ [][Next]_vars

\* _parse_polis_url on every URL of Urls.
InitUrl ==
    /\ DsIdle
    /\ GeoIdle
    /\ urlPc = "input"
    /\ urlIn \in Urls
    /\ urlOut = NoParse
NextUrl == ParseUrl
SpecUrl == InitUrl /\ [][NextUrl]_vars

\* The geographic pipeline, node after node.
InitGeo ==
    /\ DsIdle
    /\ UrlIdle
    /\ geoPc = "filter"
    /\ votes = <<>>
    /\ participant_mask = <<>>
    /\ filtered_votes = <<>>
    /\ participant_islands = <<>>
    /\ islands_geojson = [i \in Islands |-> "absent"]
    /\ island_shapes = [i \in Islands |-> NoShape]
    /\ loopIdx = 0
    /\ cur = NoCur
    /\ participant_features = <<>>
NextGeo ==
    \/ FilterNode
    \/ AggregateNode
    \/ ShapesNode
    \/ AssignStep
    \/ SampleAccept
    \/ SampleReject
    \/ AssignReturn
SpecGeo == InitGeo /\ [][NextGeo]_vars

\* The same pipeline on the plain GeoJSON: the votes and the mask vary.
NextPref ==
    \/ FilterNode
    \/ AggregateNode
    \/ ShapesNodePlain
    \/ AssignStep
    \/ SampleAccept
    \/ SampleReject
    \/ AssignReturn
SpecPref == InitGeo /\ [][NextPref]_vars

\* The same pipeline on votes tables of at most one row: the GeoJSON and the
\* mask vary.
NextPlace ==
    \/ FilterNodeShort
    \/ AggregateNode
    \/ ShapesNode
    \/ AssignStep
    \/ SampleAccept
    \/ SampleReject
    \/ AssignReturn
SpecPlace == InitGeo /\ [][NextPlace]_vars

-----------------------------------------------------------------------------
(* Properties of the dataset (Spec) *)

IsRemote(l) == l.strategy \in {"csv", "api"}

AttemptUrls(l) == [i \in 1..Len(l.attempts) |-> l.attempts[i].url]

\* The base endpoint with its https:// prefix exchanged for http://.
HttpOf(base) == HTTP \o SubSeq(base, Len(HTTPS) + 1, Len(base))

\* C1: a remote load on an https base endpoint whose first attempt ends in a
\* TLS error and whose http attempt succeeds makes exactly these two
\* attempts in this order, returns the data of the http attempt and signals
\* one downgrade; a load whose first attempt succeeds makes one attempt and
\* signals no downgrade.
C1_TlsDowngradeOnce ==
    IsRemote(lastLoad) =>
        /\ (oracle[1] = "ssl" /\ oracle[2] = "ok" /\ StartsWith(base_url, HTTPS)) =>
              /\ AttemptUrls(lastLoad) = <<base_url, HttpOf(base_url)>>
              /\ lastLoad.returned
              /\ lastLoad.source = HttpOf(base_url)
              /\ lastLoad.downgrades = 1
        /\ oracle[1] = "ok" =>
              /\ AttemptUrls(lastLoad) = <<base_url>>
              /\ lastLoad.returned
              /\ lastLoad.source = base_url
              /\ lastLoad.downgrades = 0

C1_Witness ==
    /\ lastLoad.strategy = "csv"
    /\ base_url = HTTPS \o HOST
    /\ oracle = <<"ssl", "ok">>
    /\ Len(lastLoad.attempts) = 2
    /\ lastLoad.returned
    /\ lastLoad.source = HTTP \o HOST
    /\ lastLoad.downgrades = 1

\* C2: a remote load makes at most two attempts, and raises without a
\* further attempt and without a result when (i) the first attempt fails
\* with a non-TLS error, (ii) it fails with a TLS error and the base endpoint
\* is not https, (iii) the http retry fails with any error.
C2_ErrorsPropagate ==
    IsRemote(lastLoad) =>
        /\ Len(lastLoad.attempts) <= 2
        /\ oracle[1] = "other" =>
              /\ Len(lastLoad.attempts) = 1
              /\ ~lastLoad.returned
              /\ lastLoad.error = "other"
        /\ (oracle[1] = "ssl" /\ ~StartsWith(base_url, HTTPS)) =>
              /\ Len(lastLoad.attempts) = 1
              /\ ~lastLoad.returned
              /\ lastLoad.error = "ssl"
        /\ (oracle[1] = "ssl" /\ StartsWith(base_url, HTTPS) /\ oracle[2] # "ok") =>
              /\ Len(lastLoad.attempts) = 2
              /\ ~lastLoad.returned
              /\ lastLoad.error = oracle[2]
        /\ ~lastLoad.returned => lastLoad.source = None

C2_Witness ==
    /\ lastLoad.strategy = "api"
    /\ base_url = HTTPS \o HOST
    /\ oracle = <<"ssl", "ssl">>
    /\ Len(lastLoad.attempts) = 2
    /\ ~lastLoad.returned
    /\ lastLoad.error = "ssl"

\* C3: a dataset constructed with an import_dir holds no report_id, holds no
\* conversation_id before its first load and afterwards only the one read
\* from a directory's metadata, and every load() of it runs
\* load_from_directory.
C3_DirectoryWins ==
    (pc = "ready" /\ Truthy(import_dir)) =>
        /\ report_id = None
        /\ nLoads = 0 => conversation_id = None
        /\ conversation_id \in {None, environ}
        /\ nLoads > 0 => lastLoad.strategy = "directory"

C3_Witness ==
    /\ pc = "ready"
    /\ Truthy(import_dir)
    /\ argId = <<"1">>
    /\ nLoads = 2
    /\ lastLoad.strategy = "directory"
    /\ lastLoad.returned
    /\ report_id = None

\* C4: after a directory load that returned, polis_id and conversation_id
\* both equal the conversation id the directory's metadata declares.
C4_IdFromMetadata ==
    (lastLoad.strategy = "directory" /\ lastLoad.returned) =>
        /\ polis_id = lastLoad.meta
        /\ conversation_id = lastLoad.meta

C4_Witness ==
    /\ argId = <<"r", "1">>
    /\ nLoads = 2
    /\ lastLoad.strategy = "directory"
    /\ lastLoad.returned
    /\ lastLoad.meta = <<"2", "x">>
    /\ polis_id = <<"2", "x">>
    /\ conversation_id = <<"2", "x">>

\* C6: the id held as report_id starts with the marker and the id held as
\* conversation_id does not.
C6_MarkerInvariant ==
    pc = "ready" =>
        /\ Truthy(report_id) => StartsWith(report_id, Marker)
        /\ Truthy(conversation_id) => ~StartsWith(conversation_id, Marker)

\* C7: construction fails when no id, URL or directory is given, and when a
\* raw id starts with neither 'r' nor a digit and no directory is given; a
\* constructed dataset's load() runs one of the three loaders.
C7_SelectionTotal ==
    /\ (pc # "new" /\ ~Truthy(argId) /\ ~polis_url.given /\ ~Truthy(import_dir)) =>
          (pc = "failed" /\ ctorError = "missing_identifier")
    /\ (/\ pc # "new"
        /\ ~polis_url.given
        /\ ~Truthy(import_dir)
        /\ Truthy(argId)
        /\ ~StartsWith(argId, Marker)
        /\ ~IsDigit(argId[1])) => (pc = "failed" /\ ctorError = "bad_polis_id")
    /\ pc = "ready" =>
          /\ Dispatch(import_dir, report_id, conversation_id)
                 \in {"directory", "csv", "api"}
          /\ nLoads > 0 => lastLoad.strategy \in {"directory", "csv", "api"}
          /\ lastLoad.error # "no_valid_parameters"

C7_Witness ==
    /\ pc = "ready"
    /\ polis_url.given
    /\ ~Truthy(import_dir)
    /\ nLoads = 1
    /\ lastLoad.strategy = "api"

-----------------------------------------------------------------------------
(* Properties of _parse_polis_url (SpecUrl) *)

Segments(u) == Split(Strip(u.path, SLASH), SLASH)
LastSegment(u) == Segments(u)[Len(Segments(u))]
IsReportUrl(u) ==
    /\ Len(Segments(u)) >= 2
    /\ Segments(u)[Len(Segments(u)) - 1] = REPORT

\* C5: of a URL with a non-empty last segment: under /report/ the id is the
\* last segment, with the marker put in front unless it is there already;
\* otherwise the id is the last segment and has no marker in front, a last
\* segment with the marker in front being an error. The base endpoint is
\* scheme://host.
C5_UrlResolution ==
    (urlPc = "parsed" /\ LastSegment(urlIn) # <<>>) =>
        LET last == LastSegment(urlIn)
            base == urlIn.scheme \o <<":", "/", "/">> \o urlIn.netloc
        IN  IF IsReportUrl(urlIn)
            THEN /\ urlOut.ok
                 /\ StartsWith(urlOut.polis_id, Marker)
                 /\ StartsWith(last, Marker) => urlOut.polis_id = last
                 /\ ~StartsWith(last, Marker) => urlOut.polis_id = Marker \o last
                 /\ urlOut.base_url = base
            ELSE IF StartsWith(last, Marker)
                 THEN /\ ~urlOut.ok
                      /\ urlOut.err = "conversation_url_with_report_id"
                 ELSE /\ urlOut.ok
                      /\ urlOut.polis_id = last
                      /\ ~StartsWith(urlOut.polis_id, Marker)
                      /\ urlOut.base_url = base

C5_Witness ==
    /\ urlPc = "parsed"
    /\ urlIn.path = <<"/">> \o REPORT \o <<"/", "1">>
    /\ urlOut.ok
    /\ urlOut.polis_id = <<"r", "1">>
    /\ urlOut.base_url = HTTPS \o HOST

-----------------------------------------------------------------------------
(* Properties of the geographic pipeline (SpecPref, SpecGeo) *)

\* The regions a participant voted for: affirmative votes on 64-67.
Candidates(pid) ==
    {statement_to_island(votes[i].statement_id) :
        i \in {j \in 1..Len(votes) :
                  /\ votes[j].participant_id = pid
                  /\ votes[j].vote = 1
                  /\ votes[j].statement_id \in 64..67}}

\* How many affirmative region votes a participant cast.
CandidateCount(pid) ==
    Cardinality({j \in 1..Len(votes) :
                    /\ votes[j].participant_id = pid
                    /\ votes[j].vote = 1
                    /\ votes[j].statement_id \in 64..67})

Included(pid) ==
    \E i \in 1..Len(participant_mask) : participant_mask[i] = <<pid, TRUE>>

\* Shaw 1 < Lopez 2 < Orcas 3 < San Juan 4
SizeRank(island) ==
    CASE island = "Shaw Island" -> 1
      [] island = "Lopez Island" -> 2
      [] island = "Orcas Island" -> 3
      [] island = "San Juan Island" -> 4

LowestRank(S) == CHOOSE r \in S : \A q \in S : SizeRank(r) <= SizeRank(q)

EntriesOf(pid) ==
    {i \in 1..Len(participant_islands) : participant_islands[i].pid = pid}

FeaturesOf(pid) ==
    {i \in 1..Len(participant_features) :
        participant_features[i].participant_id = pid}

Aggregated == geoPc \in {"shapes", "assign", "sampling", "done"}

\* C8: the region chosen for a participant with candidate regions is the
\* candidate of the lowest size rank, whatever the order of the votes; with
\* one candidate it is that candidate.
C8_SmallestIslandChosen ==
    /\ (cur.pid # 0 /\ Candidates(cur.pid) # {}) =>
          cur.island_name = LowestRank(Candidates(cur.pid))
    /\ \A i \in 1..Len(participant_features) :
          LET f == participant_features[i]
          IN  Candidates(f.participant_id) # {} =>
                  f.island = LowestRank(Candidates(f.participant_id))

C8_Witness ==
    /\ cur.pid = 1
    /\ cur.islands = <<"San Juan Island", "Shaw Island">>
    /\ cur.island_name = "Shaw Island"
    /\ \E i \in FeaturesOf(1) : participant_features[i].island = "Shaw Island"

\* C9: a participant without an affirmative region vote is mapped to exactly
\* ["Other"] when included and has no entry (and no placement) when not
\* included; a participant with an affirmative region vote is never given
\* "Other".
C9_OtherOnlyForIncludedNonVoters ==
    Aggregated =>
        \A pid \in PIDs :
            /\ (CandidateCount(pid) = 0 /\ Included(pid)) =>
                  /\ Cardinality(EntriesOf(pid)) = 1
                  /\ \A i \in EntriesOf(pid) :
                        participant_islands[i].islands = <<"Other">>
                  /\ \A i \in FeaturesOf(pid) :
                        participant_features[i].island = "Other"
                  /\ cur.pid = pid => cur.island_name = "Other"
            /\ (CandidateCount(pid) = 0 /\ ~Included(pid)) =>
                  /\ EntriesOf(pid) = {}
                  /\ FeaturesOf(pid) = {}
                  /\ cur.pid # pid
            /\ CandidateCount(pid) > 0 =>
                  /\ \A i \in EntriesOf(pid) :
                        \A k \in 1..Len(participant_islands[i].islands) :
                            participant_islands[i].islands[k] # "Other"
                  /\ \A i \in FeaturesOf(pid) :
                        participant_features[i].island # "Other"
                  /\ cur.pid = pid => cur.island_name # "Other"

C9_Witness ==
    /\ geoPc = "done"
    /\ votes = <<[participant_id |-> 2, statement_id |-> 64, vote |-> -1],
                 [participant_id |-> 1, statement_id |-> 63, vote |-> 1]>>
    /\ participant_mask = <<<<2, FALSE>>, <<1, TRUE>>>>
    /\ participant_islands = <<[pid |-> 1, islands |-> <<"Other">>]>>
    /\ Len(participant_features) = 1
    /\ participant_features[1].island = "Other"

\* C10: when the placement step has returned, every participant who is
\* included or cast an affirmative region vote has exactly one feature, and
\* every other participant has none.
C10_OnePlacementEach ==
    geoPc = "done" =>
        \A pid \in PIDs :
            IF Included(pid) \/ CandidateCount(pid) > 0
            THEN Cardinality(FeaturesOf(pid)) = 1
            ELSE FeaturesOf(pid) = {}

\* C11: placement in a real region is total: whatever the polygon, the
\* sampling loop of random_point_in_polygon comes to an end and returns a
\* coordinate. The loop has one way out, an accepted draw, so that while it
\* runs an accepted draw must be possible.
C11_PlacementTotal ==
    geoPc = "sampling" => ENABLED SampleAccept

\* The point lies in the geometry's axis-aligned bounding box.
InBounds(shape, p) ==
    /\ shape.bounds[1] <= p[1] /\ p[1] <= shape.bounds[3]
    /\ shape.bounds[2] <= p[2] /\ p[2] <= shape.bounds[4]

\* The point lies in at least one part of the geometry.
InSomePart(shape, p) == \E part \in shape.parts : p \in part

\* The sampling loop may return with point p.
MayReturn(p) ==
    ENABLED (/\ SampleAccept
             /\ participant_features'[Len(participant_features')].coordinates = p)

\* C12: every coordinate placed in a real region lies in the bounding box of
\* the region's geometry and in at least one of its parts; and while the
\* loop samples, the points it may return are all the points of the box that
\* lie in some part, and no other.
C12_PlacedInsideRegion ==
    /\ \A i \in 1..Len(participant_features) :
          LET f == participant_features[i]
          IN  f.island # "Other" =>
                  /\ InBounds(island_shapes[f.island], f.coordinates)
                  /\ InSomePart(island_shapes[f.island], f.coordinates)
    /\ geoPc = "sampling" =>
          LET poly == island_shapes[cur.island_name]
          IN  \A x \in poly.bounds[1]..poly.bounds[3],
                 y \in poly.bounds[2]..poly.bounds[4] :
                  MayReturn(<<x, y>>) <=> InSomePart(poly, <<x, y>>)

C12_Witness ==
    /\ geoPc = "done"
    /\ islands_geojson["Orcas Island"] = "MultiPolygon"
    /\ Len(participant_features) = 1
    /\ participant_features[1].island = "Orcas Island"
    /\ participant_features[1].coordinates = <<2, 0>>

=============================================================================
